---------------------------- MODULE Spec2Model ----------------------------
(***************************************************************************)
(* A model of opensettlenet_common: the SIP URI / Address codec, the       *)
(* header assembly and the SIP message variants of sip.py.                 *)
(*                                                                         *)
(* Text is a sequence of characters; a character is a one-character        *)
(* string, except the non-ASCII characters, which are named by their code  *)
(* point ("U+00E9").  An Optional[...] value is a sequence of length 0     *)
(* (None) or 1 (the value).                                                *)
(***************************************************************************)
EXTENDS Integers, Sequences, FiniteSets, TLC

VARIABLES
    variant,      \* the concrete class of the message
    msg,          \* the attrs fields of the SIP message instance
    ret,          \* the last call on the message and what it returned / raised
    increments,   \* history: Some(k) while the only change to cseq since
                  \* construction is k successful increment_cseq calls
    set_order,    \* iteration order of Python sets in this process
    codec,        \* the last SIPURI / Address codec call, its input and outcome
    util          \* the last utils call on an inbound packet and its outcome

vars == <<variant, msg, ret, increments, set_order, codec, util>>

-----------------------------------------------------------------------------
(* Optional values *)

None == <<>>
Some(x) == <<x>>
IsNone(o) == o = <<>>
Val(o) == o[1]

-----------------------------------------------------------------------------
(* Characters and text *)

Digits == <<"0", "1", "2", "3", "4", "5", "6", "7", "8", "9">>
DigitSet == {Digits[i] : i \in 1..10}
DigitValue(c) == (CHOOSE i \in 1..10 : Digits[i] = c) - 1

LowerSet == {"a", "b", "c", "d", "e", "f", "g", "h", "i", "j", "k", "l", "m",
             "n", "o", "p", "q", "r", "s", "t", "u", "v", "w", "x", "y", "z"}
UpperSet == {"A", "B", "C", "D", "E", "F", "G", "H", "I", "J", "K", "L", "M",
             "N", "O", "P", "Q", "R", "S", "T", "U", "V", "W", "X", "Y", "Z"}

\* str.isspace() characters the model uses
SpaceSet == {" ", "\t", "\n", "\r"}

\* code points of the non-ASCII characters of the model; every other
\* character of the model is ASCII
CodePoint(c) ==
    CASE c = "U+00E9" -> 233
      [] c = "U+20AC" -> 8364
      [] c = "U+1F600" -> 128512
      [] OTHER -> 0

\* len(c.encode("utf-8"))
Utf8Len(c) ==
    LET cp == CodePoint(c)
    IN  IF cp < 128 THEN 1
        ELSE IF cp < 2048 THEN 2
        ELSE IF cp < 65536 THEN 3
        ELSE 4

RECURSIVE SumLens(_, _, _)
\* the sum of Utf8Len over t[from..to], by halves
SumLens(t, from, to) ==
    IF from > to THEN 0
    ELSE IF from = to THEN Utf8Len(t[from])
    ELSE LET mid == (from + to) \div 2
         IN  SumLens(t, from, mid) + SumLens(t, mid + 1, to)

\* len(text.encode("utf-8"))
Utf8Bytes(t) == SumLens(t, 1, Len(t))

RECURSIVE NatToStr(_)
NatToStr(n) ==
    IF n < 10 THEN <<Digits[n + 1]>>
    ELSE NatToStr(n \div 10) \o <<Digits[(n % 10) + 1]>>

\* str(n) of a Python int
IntToStr(n) == IF n < 0 THEN <<"-">> \o NatToStr(0 - n) ELSE NatToStr(n)

RECURSIVE ConcatRange(_, _, _)
\* parts[from] \o ... \o parts[to], by halves
ConcatRange(parts, from, to) ==
    IF from > to THEN <<>>
    ELSE IF from = to THEN parts[from]
    ELSE LET mid == (from + to) \div 2
         IN  ConcatRange(parts, from, mid) \o ConcatRange(parts, mid + 1, to)

\* "".join(parts)
Concat(parts) == ConcatRange(parts, 1, Len(parts))

\* sep.join(parts)
Join(sep, parts) ==
    Concat([i \in DOMAIN parts |-> IF i = 1 THEN parts[i] ELSE sep \o parts[i]])

StartsWith(t, p) == Len(t) >= Len(p) /\ SubSeq(t, 1, Len(p)) = p
Drop(t, n) == SubSeq(t, n + 1, Len(t))
Take(t, n) == SubSeq(t, 1, n)

\* the first index at which p occurs in t, 0 when it does not: str.find + 1
Find(t, p) ==
    LET hits == {i \in 1..(Len(t) - Len(p) + 1) : SubSeq(t, i, i + Len(p) - 1) = p}
    IN  IF hits = {} THEN 0 ELSE CHOOSE i \in hits : \A j \in hits : i <= j

RECURSIVE Split(_, _)
\* t.split(sep) for a non-empty separator
Split(t, sep) ==
    LET i == Find(t, sep)
    IN  IF i = 0 THEN <<t>>
        ELSE <<Take(t, i - 1)>> \o Split(Drop(t, i - 1 + Len(sep)), sep)

CRLF == <<"\r", "\n">>

-----------------------------------------------------------------------------
(* urllib.parse.quote *)

\* characters quote() never escapes: letters, digits, "_.-~", and safe="/"
AlwaysSafe == LowerSet \cup UpperSet \cup DigitSet \cup {"_", ".", "-", "~", "/"}

\* "%XX" for each UTF-8 byte of a character quote() escapes
PercentEncoded(c) ==
    CASE c = " " -> <<"%", "2", "0">>
      [] c = "\"" -> <<"%", "2", "2">>
      [] c = "%" -> <<"%", "2", "5">>
      [] c = "+" -> <<"%", "2", "B">>
      [] c = ":" -> <<"%", "3", "A">>
      [] c = ";" -> <<"%", "3", "B">>
      [] c = "<" -> <<"%", "3", "C">>
      [] c = "=" -> <<"%", "3", "D">>
      [] c = ">" -> <<"%", "3", "E">>
      [] c = "@" -> <<"%", "4", "0">>
      [] c = "U+00E9" -> <<"%", "C", "3", "%", "A", "9">>
      [] c = "U+20AC" -> <<"%", "E", "2", "%", "8", "2", "%", "A", "C">>
      [] c = "U+1F600" -> <<"%", "F", "0", "%", "9", "F", "%", "9", "8", "%", "8", "0">>

\* urllib.parse.quote(t)
Quote(t) ==
    Concat([i \in DOMAIN t |->
               IF t[i] \in AlwaysSafe THEN <<t[i]>> ELSE PercentEncoded(t[i])])

-----------------------------------------------------------------------------
(* Python sets of parameter strings *)

P_a == <<"a">>
P_b == <<"b", "=", "1">>

\* the parameter strings the scenarios put into parameter sets
ParamUniverse == {P_a, P_b}

\* the orders in which a process may iterate a set of these strings
SetOrders ==
    {o \in [1..Cardinality(ParamUniverse) -> ParamUniverse] :
        \A i, j \in DOMAIN o : o[i] = o[j] => i = j}

Rank(p) ==
    IF \E i \in DOMAIN set_order : set_order[i] = p
    THEN CHOOSE i \in DOMAIN set_order : set_order[i] = p
    ELSE Len(set_order) + 1

RECURSIVE Iterate(_)
\* list(S) for a Python set S: its elements in this process's order
Iterate(S) ==
    IF S = {} THEN <<>>
    ELSE LET first == CHOOSE p \in S : \A q \in S : Rank(p) <= Rank(q)
         IN  <<first>> \o Iterate(S \ {first})

\* {parameter for parameter in packed.split(";") if parameter} if packed else set()
UnpackParameters(packed) ==
    IF IsNone(packed) \/ Val(packed) = <<>> THEN {}
    ELSE LET parts == Split(Val(packed), <<";">>)
         IN  {parts[i] : i \in {j \in DOMAIN parts : parts[j] # <<>>}}

-----------------------------------------------------------------------------
(* SIPURI *)

DefaultPort == 5060
MaxPort == 65535

T_sip == <<"s", "i", "p", ":">>

\* SIPURI.__str__
SIPURI_str(u) ==
    LET uri0 == u.domain
        uri1 == IF ~IsNone(u.port)
                THEN Quote(uri0) \o <<":">> \o IntToStr(Val(u.port))
                ELSE uri0
        uri2 == IF ~IsNone(u.user)
                THEN Quote(Val(u.user)) \o <<"@">> \o uri1
                ELSE uri1
        uri3 == IF u.parameters # {}
                THEN uri2 \o <<";">> \o Join(<<";">>, Iterate(u.parameters))
                ELSE uri2
    IN  T_sip \o uri3

\* SIPURI.for_start_line
for_start_line(u) ==
    LET uri0 == u.domain
        uri1 == IF ~IsNone(u.user)
                THEN Quote(Val(u.user)) \o <<"@">> \o uri0
                ELSE uri0
    IN  T_sip \o uri1

\* SIPURI.add_parameter
SIPURI_add_parameter(u, p) == [u EXCEPT !.parameters = @ \cup {p}]

\* the outcome of a call: a value, or the exception it raised
Ok(v) == [ok |-> TRUE, val |-> v]
Raise(e) == [ok |-> FALSE, err |-> e]

\* the attrs validator of SIPURI.port: and_(ge(0), le(65535)).  It is not
\* wrapped in optional(): operator.ge(None, 0) raises TypeError.
PortValidator(port) ==
    IF IsNone(port) THEN Raise("TypeError")
    ELSE IF ~(Val(port) >= 0) THEN Raise("ValueError")
    ELSE IF ~(Val(port) <= MaxPort) THEN Raise("ValueError")
    ELSE Ok(port)

\* SIPURI(domain=..., user=..., port=..., parameters=...): the generated
\* __init__ runs the validator of port
SIPURI_init(domain, user, port, parameters) ==
    LET checked == PortValidator(port)
    IN  IF checked.ok
        THEN Ok([domain |-> domain, user |-> user, port |-> port,
                 parameters |-> parameters])
        ELSE checked

\* every character of t[from..to] satisfies Cls
AllIn(t, from, to, Cls(_)) == \A k \in from..to : Cls(t[k])

\* lexicographic "at least" on tuples of naturals of one length: the order in
\* which the backtracking matcher tries its alternatives (greedy first)
RECURSIVE Prefers(_, _)
Prefers(a, b) ==
    IF a = <<>> THEN TRUE
    ELSE IF Head(a) # Head(b) THEN Head(a) > Head(b)
    ELSE Prefers(Tail(a), Tail(b))

First(matches) == CHOOSE m \in matches : \A o \in matches : Prefers(m, o)

UserChar(c) == c \notin {"@", ";", ":", ">"}
DomainChar(c) == c \notin {"@", ";", ":"}
DigitChar(c) == c \in DigitSet
NotNewline(c) == c # "\n"

\* (;.*)?$ at offset s3 of t: "$" matches at the end and before a final "\n"
TailMatches(t, s3) ==
    LET rest == Drop(t, s3)
        body == IF rest # <<>> /\ rest[Len(rest)] = "\n"
                THEN Take(rest, Len(rest) - 1) ELSE rest
    IN  \/ body = <<>>
        \/ body[1] = ";" /\ AllIn(body, 1, Len(body), NotNewline)

\* SIPURI.PATTERN.match(t): the ways the pattern matches, each as
\* <<scheme length, user length, domain length, port length>> (0: group absent)
SIPURI_matches(t) ==
    LET n == Len(t)
        schemes == {0} \cup (IF StartsWith(t, T_sip) THEN {Len(T_sip)} ELSE {})
        users(s0) == {0} \cup {ul \in 1..(n - s0 - 1) :
                         /\ t[s0 + ul + 1] = "@"
                         /\ AllIn(t, s0 + 1, s0 + ul, UserChar)}
        doms(s1) == {dl \in 1..(n - s1) : AllIn(t, s1 + 1, s1 + dl, DomainChar)}
        ports(s2) == {0} \cup {pl \in 1..(n - s2 - 1) :
                         /\ t[s2 + 1] = ":"
                         /\ AllIn(t, s2 + 2, s2 + 1 + pl, DigitChar)}
        after(ul) == IF ul = 0 THEN 0 ELSE ul + 1
        afterp(pl) == IF pl = 0 THEN 0 ELSE pl + 1
    IN  UNION {UNION {UNION {
            {<<sc, ul, dl, pl>> : pl \in {p \in ports(sc + after(ul) + dl) :
                TailMatches(t, sc + after(ul) + dl + afterp(p))}}
            : dl \in doms(sc + after(ul))}
            : ul \in users(sc)}
            : sc \in schemes}

RECURSIVE ParseNat(_)
\* int(t) for a text of ASCII digits
ParseNat(t) ==
    IF t = <<>> THEN 0
    ELSE 10 * ParseNat(Take(t, Len(t) - 1)) + DigitValue(t[Len(t)])

\* match.groups() of the first match: (user, domain, port, packed_parameters)
SIPURI_groups(t, m) ==
    LET sc == m[1]
        ul == m[2]
        dl == m[3]
        pl == m[4]
        s1 == sc + (IF ul = 0 THEN 0 ELSE ul + 1)
        s2 == s1 + dl
        s3 == s2 + (IF pl = 0 THEN 0 ELSE pl + 1)
        rest == Drop(t, s3)
        body == IF rest # <<>> /\ rest[Len(rest)] = "\n"
                THEN Take(rest, Len(rest) - 1) ELSE rest
    IN  [user |-> IF ul = 0 THEN None ELSE Some(SubSeq(t, sc + 1, sc + ul)),
         domain |-> SubSeq(t, s1 + 1, s2),
         port |-> IF pl = 0 THEN None ELSE Some(SubSeq(t, s2 + 2, s2 + 1 + pl)),
         packed_parameters |-> IF body = <<>> THEN None ELSE Some(body)]

\* SIPURI.from_uri
from_uri(t) ==
    LET matches == SIPURI_matches(t)
    IN  IF matches = {} THEN Raise("ValueError")
        ELSE LET g == SIPURI_groups(t, First(matches))
             IN  SIPURI_init(g.domain, g.user,
                             IF ~IsNone(g.port) THEN Some(ParseNat(Val(g.port)))
                             ELSE None,
                             UnpackParameters(g.packed_parameters))

-----------------------------------------------------------------------------
(* Address *)

T_lt_sip == <<"<", "s", "i", "p", ":">>

\* Address.__str__
Address_str(a) ==
    LET address0 == <<"<">> \o SIPURI_str(a.sip_uri) \o <<">">>
        address1 == IF ~IsNone(a.display_name)
                    THEN <<"\"">> \o Val(a.display_name) \o <<"\"", " ">> \o address0
                    ELSE address0
    IN  IF a.parameters # {}
        THEN address1 \o <<";">> \o Join(<<";">>, Iterate(a.parameters))
        ELSE address1

\* Address.add_parameter
Address_add_parameter(a, p) == [a EXCEPT !.parameters = @ \cup {p}]

\* Address.add_parameter_to_uri
add_parameter_to_uri(a, p) ==
    [a EXCEPT !.sip_uri = SIPURI_add_parameter(@, p)]

SpaceChar(c) == c \in SpaceSet
NotGt(c) == c # ">"

\* Address.PATTERN.match(t): the ways the pattern (anchored at the start only)
\* matches, each as <<1 for the quoted alternative else 0, length of .+,
\* length of \s+, length of [^>]+>>
Address_matches(t) ==
    LET n == Len(t)
        quoted == {k \in 1..(n - 2) :
                     /\ t[1] = "\""
                     /\ t[k + 2] = "\""
                     /\ AllIn(t, 2, k + 1, NotNewline)}
        plain == {k \in 1..n : AllIn(t, 1, k, NotNewline)}
        spaces(p) == {w \in 1..(n - p) : AllIn(t, p + 1, p + w, SpaceChar)}
        uris(p) == {g \in 1..(n - p - Len(T_lt_sip) - 1) :
                     /\ SubSeq(t, p + 1, p + Len(T_lt_sip)) = T_lt_sip
                     /\ AllIn(t, p + Len(T_lt_sip) + 1, p + Len(T_lt_sip) + g, NotGt)
                     /\ t[p + Len(T_lt_sip) + g + 1] = ">"}
    IN  UNION {UNION {{<<1, k, w, g>> : g \in uris(k + 2 + w)}
                      : w \in spaces(k + 2)} : k \in quoted}
        \cup
        UNION {UNION {{<<0, k, w, g>> : g \in uris(k + w)}
                      : w \in spaces(k)} : k \in plain}

\* match.groups() of the first match: (display_name, uri, packed_parameters)
Address_groups(t, m) ==
    LET p == IF m[1] = 1 THEN m[2] + 2 ELSE m[2]
        u0 == p + m[3] + Len(T_lt_sip)
        rest == Drop(t, u0 + m[4] + 1)
        nl == Find(rest, <<"\n">>)
        line == IF nl = 0 THEN rest ELSE Take(rest, nl - 1)
    IN  [display_name |-> IF m[1] = 1 THEN Some(SubSeq(t, 2, m[2] + 1)) ELSE None,
         uri |-> SubSeq(t, u0 + 1, u0 + m[4]),
         packed_parameters |-> IF rest # <<>> /\ rest[1] = ";" THEN Some(line)
                               ELSE None]

\* Address(display_name=..., sip_uri=..., parameters=...)
Address_init(display_name, sip_uri, parameters) ==
    [display_name |-> display_name, sip_uri |-> sip_uri, parameters |-> parameters]

\* Address.from_address
from_address(t) ==
    LET matches == Address_matches(t)
        g == IF matches # {} THEN Address_groups(t, First(matches))
             ELSE [display_name |-> None, uri |-> t, packed_parameters |-> None]
        sip_uri == from_uri(g.uri)
    IN  IF sip_uri.ok
        THEN Ok(Address_init(g.display_name, sip_uri.val,
                             UnpackParameters(g.packed_parameters)))
        ELSE sip_uri

-----------------------------------------------------------------------------
(* Python int() *)

RECURSIVE LStrip(_)
LStrip(t) == IF t # <<>> /\ Head(t) \in SpaceSet THEN LStrip(Tail(t)) ELSE t

RECURSIVE RStrip(_)
RStrip(t) ==
    IF t # <<>> /\ t[Len(t)] \in SpaceSet THEN RStrip(Take(t, Len(t) - 1)) ELSE t

\* t.strip()
Strip(t) == RStrip(LStrip(t))

\* the digits part of an integer literal: after the optional sign
Unsigned(t) ==
    LET s == Strip(t)
    IN  IF s # <<>> /\ s[1] \in {"+", "-"} THEN Tail(s) ELSE s

\* int(t) succeeds: optional whitespace, optional sign, digits with single
\* underscores between them
IsPyInt(t) ==
    LET d == Unsigned(t)
    IN  /\ d # <<>>
        /\ \A i \in DOMAIN d : d[i] \in DigitSet \cup {"_"}
        /\ d[1] # "_"
        /\ d[Len(d)] # "_"
        /\ \A i \in 1..(Len(d) - 1) : ~(d[i] = "_" /\ d[i + 1] = "_")

\* int(t) when it succeeds
PyIntValue(t) ==
    LET s == Strip(t)
        n == ParseNat(SelectSeq(Unsigned(t), LAMBDA c : c # "_"))
    IN  IF s[1] = "-" THEN 0 - n ELSE n

-----------------------------------------------------------------------------
(* Header assembly *)

H_Accept == <<"A", "c", "c", "e", "p", "t">>
H_CallID == <<"C", "a", "l", "l", "-", "I", "D">>
H_Contact == <<"C", "o", "n", "t", "a", "c", "t">>
H_ContentLength == <<"C", "o", "n", "t", "e", "n", "t", "-", "L", "e", "n", "g", "t", "h">>
H_ContentType == <<"C", "o", "n", "t", "e", "n", "t", "-", "T", "y", "p", "e">>
H_CSeq == <<"C", "S", "e", "q">>
H_Event == <<"E", "v", "e", "n", "t">>
H_Expires == <<"E", "x", "p", "i", "r", "e", "s">>
H_From == <<"F", "r", "o", "m">>
H_MaxForwards == <<"M", "a", "x", "-", "F", "o", "r", "w", "a", "r", "d", "s">>
H_SubscriptionState == <<"S", "u", "b", "s", "c", "r", "i", "p", "t", "i", "o", "n", "-", "S", "t", "a", "t", "e">>
H_To == <<"T", "o">>
H_Via == <<"V", "i", "a">>

Variants == {"SubclassedSIP", "Subscribe", "Publish", "Notify"}

\* inspect.getmembers(instance, predicate=inspect.ismethod) returns the
\* members sorted by name; these are the ones carrying a _header_name
MemberOrder ==
    <<"accept_header", "call_id_header", "contact_header",
      "content_length_header", "content_type_header", "cseq_header",
      "event_header", "expires_header", "from_header", "max_forwards_header",
      "subscription_state_header", "to_header", "via_header">>

\* the class of variant v defines or inherits the header method m
HasMember(v, m) ==
    CASE m = "expires_header" -> v \in {"Subscribe", "Notify"}
      [] m = "subscription_state_header" -> v = "Notify"
      [] OTHER -> TRUE

\* _header_name of the decorated method
HeaderName(m) ==
    CASE m = "accept_header" -> H_Accept
      [] m = "call_id_header" -> H_CallID
      [] m = "contact_header" -> H_Contact
      [] m = "content_length_header" -> H_ContentLength
      [] m = "content_type_header" -> H_ContentType
      [] m = "cseq_header" -> H_CSeq
      [] m = "event_header" -> H_Event
      [] m = "expires_header" -> H_Expires
      [] m = "from_header" -> H_From
      [] m = "max_forwards_header" -> H_MaxForwards
      [] m = "subscription_state_header" -> H_SubscriptionState
      [] m = "to_header" -> H_To
      [] m = "via_header" -> H_Via

\* _header_priority of the decorated method (None: no priority given)
HeaderPriority(m) ==
    CASE m = "via_header" -> Some(0)
      [] m = "to_header" -> Some(1)
      [] m = "from_header" -> Some(2)
      [] m = "cseq_header" -> Some(3)
      [] m = "call_id_header" -> Some(4)
      [] OTHER -> None

\* key(a) < key(b) for the sort key: the priority, or float("inf") for None
KeyLess(a, b) ==
    /\ ~IsNone(HeaderPriority(a))
    /\ \/ IsNone(HeaderPriority(b))
       \/ Val(HeaderPriority(a)) < Val(HeaderPriority(b))

\* x put into the sorted list after every element whose key is not greater
InsertByKey(sorted, x) ==
    LET later == {i \in DOMAIN sorted : KeyLess(x, sorted[i])}
        at == IF later = {} THEN Len(sorted) + 1
              ELSE CHOOSE i \in later : \A j \in later : i <= j
    IN  SubSeq(sorted, 1, at - 1) \o <<x>> \o SubSeq(sorted, at, Len(sorted))

RECURSIVE SortByPriority(_)
\* headers.sort(key=...): list.sort is stable
SortByPriority(ms) ==
    IF ms = <<>> THEN <<>>
    ELSE InsertByKey(SortByPriority(Take(ms, Len(ms) - 1)), ms[Len(ms)])

\* the header methods of an instance of variant v, in the order _get_headers
\* calls them
HeaderMethods(v) ==
    SortByPriority(SelectSeq(MemberOrder, LAMBDA m : HasMember(v, m)))

-----------------------------------------------------------------------------
(* The presence document: xmltodict.unparse(pidf, pretty=True) *)

\* xml.sax.saxutils.escape: character data
XmlEscape(t) ==
    Concat([i \in DOMAIN t |->
               CASE t[i] = "&" -> <<"&", "a", "m", "p", ";">>
                 [] t[i] = "<" -> <<"&", "l", "t", ";">>
                 [] t[i] = ">" -> <<"&", "g", "t", ";">>
                 [] OTHER -> <<t[i]>>])

\* escape(data, {"\n": "&#10;", "\r": "&#13;", "\t": "&#9;"}) of quoteattr
XmlEscapeAttr(t) ==
    Concat([i \in DOMAIN t |->
               CASE t[i] = "&" -> <<"&", "a", "m", "p", ";">>
                 [] t[i] = "<" -> <<"&", "l", "t", ";">>
                 [] t[i] = ">" -> <<"&", "g", "t", ";">>
                 [] t[i] = "\n" -> <<"&", "#", "1", "0", ";">>
                 [] t[i] = "\r" -> <<"&", "#", "1", "3", ";">>
                 [] t[i] = "\t" -> <<"&", "#", "9", ";">>
                 [] OTHER -> <<t[i]>>])

\* data.replace('"', "&quot;")
ReplaceQuot(t) ==
    Concat([i \in DOMAIN t |->
               IF t[i] = "\"" THEN <<"&", "q", "u", "o", "t", ";">> ELSE <<t[i]>>])

\* xml.sax.saxutils.quoteattr: an attribute value with its quotes
QuoteAttr(t) ==
    LET data == XmlEscapeAttr(t)
        has(c) == \E i \in DOMAIN data : data[i] = c
    IN  IF has("\"")
        THEN IF has("'") THEN <<"\"">> \o ReplaceQuot(data) \o <<"\"">>
             ELSE <<"'">> \o data \o <<"'">>
        ELSE <<"\"">> \o data \o <<"\"">>

\* settings.PAYMENT_WALLET: a string of the external configuration
PAYMENT_WALLET == <<"w", "1">>

\* SIP.gen_pidf_xml(state="unpaid")
gen_pidf_xml(m) ==
    \* <?xml version="1.0" encoding="utf-8"?>
    <<"<", "?", "x", "m", "l", " ", "v", "e", "r", "s", "i", "o", "n", "=",
      "\"", "1", ".", "0", "\"", " ", "e", "n", "c", "o", "d", "i", "n", "g",
      "=", "\"", "u", "t", "f", "-", "8", "\"", "?", ">", "\n">>
    \* <presence xmlns="urn:ietf:params:xml:ns:pidf" entity=
    \o <<"<", "p", "r", "e", "s", "e", "n", "c", "e", " ", "x", "m", "l",
         "n", "s", "=", "\"", "u", "r", "n", ":", "i", "e", "t", "f", ":",
         "p", "a", "r", "a", "m", "s", ":", "x", "m", "l", ":", "n", "s",
         ":", "p", "i", "d", "f", "\"", " ", "e", "n", "t", "i", "t", "y",
         "=">>
    \o QuoteAttr(Address_str(m.from_field))
    \* <tuple id=
    \o <<">", "\n", "\t", "<", "t", "u", "p", "l", "e", " ", "i", "d", "=">>
    \o QuoteAttr(<<"u", "n", "p", "a", "i", "d">>)
    \* <status><basic>open</basic></status> <contact priority="0.8">
    \o <<">", "\n", "\t", "\t", "<", "s", "t", "a", "t", "u", "s", ">", "\n",
         "\t", "\t", "\t", "<", "b", "a", "s", "i", "c", ">", "o", "p", "e",
         "n", "<", "/", "b", "a", "s", "i", "c", ">", "\n", "\t", "\t", "<",
         "/", "s", "t", "a", "t", "u", "s", ">", "\n", "\t", "\t", "<", "c",
         "o", "n", "t", "a", "c", "t", " ", "p", "r", "i", "o", "r", "i",
         "t", "y", "=", "\"", "0", ".", "8", "\"", ">">>
    \o XmlEscape(Address_str(m.from_field))
    \* </contact> <note>
    \o <<"<", "/", "c", "o", "n", "t", "a", "c", "t", ">", "\n", "\t", "\t",
         "<", "n", "o", "t", "e", ">">>
    \o XmlEscape(PAYMENT_WALLET)
    \* </note> <note>
    \o <<"<", "/", "n", "o", "t", "e", ">", "\n", "\t", "\t", "<", "n", "o",
         "t", "e", ">">>
    \* str(0.001)
    \o <<"0", ".", "0", "0", "1">>
    \* </note> </tuple> </presence>
    \o <<"<", "/", "n", "o", "t", "e", ">", "\n", "\t", "<", "/", "t", "u",
         "p", "l", "e", ">", "\n", "<", "/", "p", "r", "e", "s", "e", "n",
         "c", "e", ">">>

-----------------------------------------------------------------------------
(* SIP messages *)

T_application_xml == <<"a", "p", "p", "l", "i", "c", "a", "t", "i", "o", "n", "/", "x", "m", "l">>
T_SIP20 == <<"S", "I", "P", "/", "2", ".", "0">>
T_UDP == <<"U", "D", "P">>
T_default_contact == <<"s", "i", "p", ":", "b", "i", "l", "l", "e", "r", "@", "1", "0", ".", "1", "0", ".", "0", ".", "1", "2", ":", "5", "0", "6", "0">>
T_METHOD == <<"M", "E", "T", "H", "O", "D">>
T_SUBSCRIBE == <<"S", "U", "B", "S", "C", "R", "I", "B", "E">>
T_PUBLISH == <<"P", "U", "B", "L", "I", "S", "H">>
T_NOTIFY == <<"N", "O", "T", "I", "F", "Y">>
T_localhost == <<"1", "2", "7", ".", "0", ".", "0", ".", "1">>

\* utils.get_host_ip(): the address the local host name resolves to
HostIp == <<"1", "0", ".", "0", ".", "0", ".", "7">>

DefaultSrcPort == 5060

\* method() of each concrete class
method(v) ==
    CASE v = "SubclassedSIP" -> T_METHOD
      [] v = "Subscribe" -> T_SUBSCRIBE
      [] v = "Publish" -> T_PUBLISH
      [] v = "Notify" -> T_NOTIFY

\* SIP.get_body
SIP_get_body(m) == m.body

\* a Subscribe.get_body that does not override SIP.get_body (fault variant)
Subscribe_get_body_inherited(m) == m.body

\* Subscribe.get_body
Subscribe_get_body(m) == None

\* Publish.get_body / Notify.get_body: super().get_body() or self.gen_pidf_xml()
Pidf_get_body(m) ==
    IF ~IsNone(SIP_get_body(m)) /\ Val(SIP_get_body(m)) # <<>>
    THEN SIP_get_body(m)
    ELSE Some(gen_pidf_xml(m))

\* self.get_body(), dispatched on the class
get_body(v, m) ==
    CASE v = "SubclassedSIP" -> SIP_get_body(m)
      [] v = "Subscribe" -> Subscribe_get_body(m)
      [] v \in {"Publish", "Notify"} -> Pidf_get_body(m)

\* get_src_ip: SubclassedSIP overrides it; SIP: self.src_ip or get_host_ip()
get_src_ip(v, m) ==
    IF v = "SubclassedSIP" THEN T_localhost
    ELSE IF ~IsNone(m.src_ip) /\ Val(m.src_ip) # <<>> THEN Val(m.src_ip)
    ELSE HostIp

\* get_src_port: SubclassedSIP overrides it
get_src_port(v, m) ==
    IF v = "SubclassedSIP" THEN DefaultSrcPort
    ELSE IF ~IsNone(m.src_port) THEN Val(m.src_port)
    ELSE DefaultSrcPort

\* SIP.accept_header and its overrides in Subscribe and Publish
accept_header(v, m) ==
    IF v \in {"Subscribe", "Publish"} THEN Some(T_application_xml) ELSE m.accept

\* a content_length_header that counts characters: str(len(body)) (fault
\* variant)
content_length_header_chars(v, m) ==
    LET body == get_body(v, m)
    IN  IF ~IsNone(body) THEN Some(IntToStr(Len(Val(body))))
        ELSE Some(<<"0">>)

\* SIP.content_length_header
content_length_header(v, m) ==
    LET body == get_body(v, m)
    IN  IF ~IsNone(body) THEN Some(IntToStr(Utf8Bytes(Val(body))))
        ELSE Some(<<"0">>)

\* SIP.content_type_header
content_type_header(v, m) ==
    IF ~IsNone(m.body) THEN Some(T_application_xml) ELSE None

\* SIP.cseq_header
cseq_header(v, m) == Some(m.cseq \o <<" ">> \o method(v))

\* SIP.to_header
to_header(v, m) ==
    IF ~IsNone(m.to_tag)
    THEN Some(Address_str(m.to_field) \o <<";">> \o Val(m.to_tag))
    ELSE Some(Address_str(m.to_field))

\* SIP.via_header
via_header(v, m) ==
    Some(T_SIP20 \o <<"/">> \o m.transport_protocol \o <<" ">>
         \o get_src_ip(v, m) \o <<":">> \o IntToStr(get_src_port(v, m)))

\* header(): the value the header method named h returns on the instance
HeaderValue(h, v, m) ==
    CASE h = "accept_header" -> accept_header(v, m)
      [] h = "call_id_header" -> Some(m.call_id)
      [] h = "contact_header" -> Some(m.contact)
      [] h = "content_length_header" -> content_length_header(v, m)
      [] h = "content_type_header" -> content_type_header(v, m)
      [] h = "cseq_header" -> cseq_header(v, m)
      [] h = "event_header" -> m.event
      [] h = "expires_header" -> m.expires
      [] h = "from_header" -> Some(Address_str(m.from_field))
      [] h = "max_forwards_header" -> Some(m.max_forwards)
      [] h = "subscription_state_header" -> m.subscription_state
      [] h = "to_header" -> to_header(v, m)
      [] h = "via_header" -> via_header(v, m)

\* a dict as the sequence of its (key, value) items in insertion order
DictKeys(d) == [i \in DOMAIN d |-> d[i][1]]
DictHas(d, k) == \E i \in DOMAIN d : d[i][1] = k
DictGet(d, k) == d[CHOOSE i \in DOMAIN d : d[i][1] = k][2]

\* d[k] = x: a new key goes last, an old key keeps its place
DictSet(d, k, x) ==
    IF DictHas(d, k)
    THEN [i \in DOMAIN d |-> IF d[i][1] = k THEN <<k, x>> ELSE d[i]]
    ELSE Append(d, <<k, x>>)

RECURSIVE DictOf(_)
\* {key: value for ...} over a sequence of items
DictOf(items) ==
    IF items = <<>> THEN <<>>
    ELSE DictSet(DictOf(Take(items, Len(items) - 1)),
                 items[Len(items)][1], items[Len(items)][2])

\* [F(x) for x in s]
Map(s, F(_)) == [i \in DOMAIN s |-> F(s[i])]

\* Header._get_headers
Header_get_headers_all(v, m) ==
    DictOf(Map(HeaderMethods(v),
               LAMBDA header : <<HeaderName(header), HeaderValue(header, v, m)>>))

\* Header.get_headers / SIP.get_headers: the items whose value is not None
get_headers(v, m) ==
    Map(SelectSeq(Header_get_headers_all(v, m), LAMBDA kv : ~IsNone(kv[2])),
        LAMBDA kv : <<kv[1], Val(kv[2])>>)

\* f"{key}: {value}"
HeaderLine(kv) == kv[1] \o <<":", " ">> \o kv[2]

\* SIP.format_headers
format_headers(v, m) == Join(CRLF, Map(get_headers(v, m), HeaderLine))

\* SIP.get_start_line
get_start_line(v, m) ==
    method(v) \o <<" ">> \o for_start_line(m.to_field.sip_uri) \o <<" ">> \o T_SIP20

\* a format that ends the body with a line break (fault variant)
format_body_line(v, m) ==
    LET start_line == get_start_line(v, m)
        headers == format_headers(v, m)
        body == get_body(v, m)
    IN  IF ~IsNone(body)
        THEN start_line \o CRLF \o headers \o CRLF \o CRLF \o Val(body) \o CRLF
        ELSE start_line \o CRLF \o headers \o CRLF \o CRLF

\* SIP.format
format(v, m) ==
    LET start_line == get_start_line(v, m)
        headers == format_headers(v, m)
        body == get_body(v, m)
    IN  IF ~IsNone(body)
        THEN start_line \o CRLF \o headers \o CRLF \o CRLF \o Val(body)
        ELSE start_line \o CRLF \o headers \o CRLF \o CRLF

\* int(self.cseq) + 1 of SIP.increment_cseq
NextCSeq(cseq) == PyIntValue(cseq) + 1

\* an increment_cseq that returns the next number without storing it (fault
\* variant)
increment_cseq_unsaved(m) ==
    IF IsPyInt(m.cseq)
    THEN [msg |-> m, out |-> Ok(NextCSeq(m.cseq))]
    ELSE [msg |-> m, out |-> Raise("ValueError")]

\* an increment_cseq that restarts at 1 when cseq does not parse (fault
\* variant)
increment_cseq_lenient(m) ==
    IF IsPyInt(m.cseq)
    THEN [msg |-> [m EXCEPT !.cseq = IntToStr(NextCSeq(m.cseq))],
          out |-> Ok(NextCSeq(m.cseq))]
    ELSE [msg |-> [m EXCEPT !.cseq = <<"1">>], out |-> Ok(1)]

\* SIP.increment_cseq: the fields after the call and what it returns or raises
increment_cseq(m) ==
    IF IsPyInt(m.cseq)
    THEN [msg |-> [m EXCEPT !.cseq = IntToStr(NextCSeq(m.cseq))],
          out |-> Ok(NextCSeq(m.cseq))]
    ELSE [msg |-> m, out |-> Raise("ValueError")]

\* SIP.set_cseq with a str argument: str(cseq) is the argument
set_cseq_str(m, cseq) == [m EXCEPT !.cseq = cseq]

\* SIP.set_cseq with an int argument
set_cseq_int(m, cseq) == [m EXCEPT !.cseq = IntToStr(cseq)]

\* an add_to_tag that also restarts the sequence number (fault variant)
add_to_tag_restarting(m, token) == [m EXCEPT !.to_tag = Some(token), !.cseq = <<"1">>]

\* SIP.add_to_tag with the token secrets.token_hex(10) drew
add_to_tag(m, token) == [m EXCEPT !.to_tag = Some(token)]

-----------------------------------------------------------------------------
(* utils.py: inbound packets *)

T_colon_space == <<":", " ">>

\* ': ' in header
HasColonSpace(header) == Find(header, T_colon_space) > 0

\* key, value = header.split(': ', 1); (key.strip(), value.strip())
HeaderItem(header) ==
    <<Strip(Take(header, Find(header, T_colon_space) - 1)),
      Strip(Drop(header, Find(header, T_colon_space) + 1))>>

\* utils.sip_headers_to_dict: every line of the packet holding ': ' gives an
\* item, a later line with the same key replaces the value; other lines are
\* passed over
sip_headers_to_dict(packet) ==
    DictOf(Map(SelectSeq(Split(packet, CRLF), HasColonSpace), HeaderItem))

\* value.split()[0] of a value that is not all whitespace
FirstToken(value) ==
    LET s == LStrip(value)
        spaces == {i \in DOMAIN s : s[i] \in SpaceSet}
    IN  IF spaces = {} THEN s
        ELSE Take(s, (CHOOSE i \in spaces : \A j \in spaces : i <= j) - 1)

\* the outcome of a call returning text: the text, or the error raised and
\* the key it names
Returned(text) == [ok |-> TRUE, err |-> "", key |-> <<>>, text |-> text]
Raised(err, key) == [ok |-> FALSE, err |-> err, key |-> key, text |-> <<>>]

\* the keys the response's f-string looks up, in the order it does
RequiredHeaders == <<H_Via, H_From, H_To, H_CallID, H_CSeq>>

\* the f-string of generate_200_ok_response over the parsed headers:
\* headers[...] raises KeyError, [][0] of an empty split() IndexError
Response(headers) ==
    LET missing == {i \in DOMAIN RequiredHeaders :
                       ~DictHas(headers, RequiredHeaders[i])}
    IN  IF missing # {}
        THEN Raised("KeyError",
                    RequiredHeaders[CHOOSE i \in missing : \A j \in missing : i <= j])
        ELSE IF Strip(DictGet(headers, H_CSeq)) = <<>>
        THEN Raised("IndexError", <<>>)
        ELSE Returned(
            T_SIP20 \o <<" ", "2", "0", "0", " ", "O", "K">> \o CRLF
            \o H_Via \o T_colon_space \o DictGet(headers, H_Via) \o CRLF
            \o H_From \o T_colon_space \o DictGet(headers, H_From) \o CRLF
            \o H_To \o T_colon_space \o DictGet(headers, H_To) \o CRLF
            \o H_CallID \o T_colon_space \o DictGet(headers, H_CallID) \o CRLF
            \o H_CSeq \o T_colon_space \o FirstToken(DictGet(headers, H_CSeq))
            \o <<" ">> \o T_NOTIFY \o CRLF
            \o H_ContentLength \o T_colon_space \o <<"0">> \o CRLF \o CRLF)

\* utils.generate_200_ok_response
generate_200_ok_response(packet) == Response(sip_headers_to_dict(packet))

-----------------------------------------------------------------------------
(* The messages and arguments of the scenarios *)

\* the largest sequence number increment_cseq is followed to
MaxCSeq == 3

\* values secrets.token_hex(10) may draw: 20 hexadecimal digits
Tokens ==
    {<<"0", "1", "2", "3", "4", "5", "6", "7", "8", "9",
       "a", "b", "c", "d", "e", "f", "0", "1", "2", "3">>,
     <<"f", "e", "d", "c", "b", "a", "9", "8", "7", "6",
       "5", "4", "3", "2", "1", "0", "9", "8", "7", "6">>}

B_ascii == <<"S", "I", "P", " ", "B", "O", "D", "Y">>
B_multibyte == <<"U+00E9", "U+20AC", "U+1F600", "x">>
B_blank_line == <<"a", "\r", "\n", "\r", "\n", "b">>

Bodies == {None, Some(<<>>), Some(B_ascii), Some(B_multibyte), Some(B_blank_line)}

\* the assignments of accept, event and the source address the scenarios use
OptionalFields ==
    LET text_plain == <<"t", "e", "x", "t", "/", "p", "l", "a", "i", "n">>
        presence == <<"p", "r", "e", "s", "e", "n", "c", "e">>
    IN  {[accept |-> None, event |-> None, src |-> FALSE],
         [accept |-> Some(text_plain), event |-> None, src |-> TRUE],
         [accept |-> None, event |-> Some(presence), src |-> FALSE],
         [accept |-> Some(text_plain), event |-> Some(presence), src |-> TRUE]}

ToField ==
    Address_init(Some(<<"L", " ", "M">>),
                 [domain |-> <<"o", ".", "c", "o", "m">>, user |-> Some(<<"l", "+", "1">>),
                  port |-> Some(5061), parameters |-> {P_a, P_b}],
                 {P_a})

FromField ==
    Address_init(Some(<<"N", "&", "D">>),
                 [domain |-> <<"o", ".", "c", "o", "m">>, user |-> Some(<<"n">>),
                  port |-> Some(DefaultPort), parameters |-> {}],
                 {})

\* the arguments set_cseq is called with
CSeqTexts == {<<"x">>, <<" ", "+", "0", "_", "1", " ">>, <<"2", ".", "0">>, <<"-", "1">>}
CSeqInts == {3}

\* a message as its constructor leaves it; cseq "1", no to_tag
NewMessage(body, accept, event, expires, subscription_state, src) ==
    [to_field |-> ToField, from_field |-> FromField,
     call_id |-> <<"4", "e", "8", "c">>, cseq |-> <<"1">>,
     max_forwards |-> <<"7", "0">>,
     contact |-> T_default_contact, accept |-> accept, event |-> event,
     body |-> body, to_tag |-> None, transport_protocol |-> T_UDP,
     src_ip |-> IF src THEN Some(<<"1", ".", "2", ".", "3", ".", "4">>) ELSE None,
     src_port |-> IF src THEN Some(5070) ELSE None,
     expires |-> expires, subscription_state |-> subscription_state]

\* the values of (expires, subscription_state) the scenarios give variant v:
\* Subscribe requires expires, only Notify has subscription_state
VariantFieldsOf(v) ==
    CASE v = "Subscribe" -> {<<Some(<<"3", "6", "0", "0">>), None>>}
      [] v = "Notify" -> {<<None, None>>,
                          <<Some(<<"3", "6", "0", "0">>),
                            Some(<<"a", "c", "t", "i", "v", "e">>)>>}
      [] OTHER -> {<<None, None>>}

Call(op, ok, num, text) == [op |-> op, ok |-> ok, num |-> num, text |-> text]

\* what a call returning an int left: the number, or that it raised
IntCall(op, out) == Call(op, out.ok, IF out.ok THEN out.val ELSE 0, <<>>)

NoCall == Call("new", TRUE, 0, <<>>)

\* a SIPURI / Address codec call: its input, its outcome, the components its
\* input text was written from (if any) and the call whose output it was given
CodecCall(op, input, out, parts, origin) ==
    [op |-> op, input |-> input, out |-> out, parts |-> parts, origin |-> origin]

NoCodec == CodecCall("none", None, Ok(None), None, None)

\* a utils call on a packet: the lines the packet was written from, the
\* mapping sip_headers_to_dict returned and the outcome of the call
UtilCall(op, packet, parts, dict, out) ==
    [op |-> op, packet |-> packet, parts |-> parts, dict |-> dict, out |-> out]

NoUtil == UtilCall("none", <<>>, None, <<>>, Returned(<<>>))

-----------------------------------------------------------------------------
(* The life of one message *)

Init ==
    /\ variant \in Variants
    /\ \E body \in Bodies, o \in OptionalFields, f \in VariantFieldsOf(variant) :
         /\ o.src => body \in {None, Some(B_ascii)}
         /\ msg = NewMessage(body, o.accept, o.event, f[1], f[2], o.src)
    /\ ret = NoCall
    /\ increments = Some(0)
    /\ set_order \in SetOrders
    /\ codec = NoCodec
    /\ util = NoUtil

AddToTag ==
    \E token \in Tokens :
        /\ msg' = add_to_tag(msg, token)
        /\ ret' = Call("add_to_tag", TRUE, 0, token)
        /\ UNCHANGED <<variant, increments, set_order, codec, util>>

SetCSeq ==
    /\ \/ \E cseq \in CSeqTexts : msg' = set_cseq_str(msg, cseq)
       \/ \E cseq \in CSeqInts : msg' = set_cseq_int(msg, cseq)
    /\ ret' = Call("set_cseq", TRUE, 0, <<>>)
    /\ increments' = None
    /\ UNCHANGED <<variant, set_order, codec, util>>

IncrementCSeq ==
    /\ IsPyInt(msg.cseq) => NextCSeq(msg.cseq) <= MaxCSeq
    /\ msg' = increment_cseq(msg).msg
    /\ ret' = IntCall("increment_cseq", increment_cseq(msg).out)
    /\ increments' = IF ~IsNone(increments) /\ increment_cseq(msg).out.ok
                      THEN Some(Val(increments) + 1) ELSE None
    /\ UNCHANGED <<variant, set_order, codec, util>>

Format ==
    /\ ret' = Call("format", TRUE, 0, format(variant, msg))
    /\ UNCHANGED <<variant, msg, increments, set_order, codec, util>>

Next ==
    \/ AddToTag
    \/ SetCSeq
    \/ IncrementCSeq
    \/ Format

Spec == Init /\ [][Next]_vars

-----------------------------------------------------------------------------
(* The SIPURI / Address codec: parse, render, parse again *)

\* texts of the grammar [sip:][user@]domain[:port][;param...], each with the
\* components it was written from
UriParts ==
    [scheme : BOOLEAN,
     user : {None, Some(<<"u">>), Some(<<"+", "1">>), Some(<<"a", "%", "2", "0", "b">>)},
     domain : {<<"d", ".", "c">>},
     port : {None, Some(0), Some(DefaultPort), Some(MaxPort)},
     params : {<<>>, <<P_a>>, <<P_a, P_b>>, <<P_b, P_a>>}]

\* the URI text with these components
UriText(p) ==
    (IF p.scheme THEN T_sip ELSE <<>>)
    \o (IF IsNone(p.user) THEN <<>> ELSE Val(p.user) \o <<"@">>)
    \o p.domain
    \o (IF IsNone(p.port) THEN <<>> ELSE <<":">> \o IntToStr(Val(p.port)))
    \o Concat([i \in DOMAIN p.params |-> <<";">> \o p.params[i]])

\* other texts handed to SIPURI.from_uri
OtherUriTexts ==
    {<<"a", "@", "b", "@", "c">>,
     <<"d", ":", "6", "5", "5", "3", "6">>,
     <<"d", ":", "0", "8", "0", ";", ";", "a", ";">>,
     <<>>}

\* the SIPURI objects the constructor accepts, of these components
Uris ==
    {u \in [domain : {<<"d", ".", "c">>},
            user : {None, Some(<<"u">>)},
            port : {None, Some(DefaultPort), Some(5061)},
            parameters : SUBSET ParamUniverse] :
        SIPURI_init(u.domain, u.user, u.port, u.parameters).ok}

\* the Address objects of the scenarios
Addresses ==
    {Address_init(d, u, ps) :
        d \in {None, Some(<<"J", " ", "D">>)}, u \in Uris, ps \in SUBSET ParamUniverse}

\* other texts handed to Address.from_address
OtherAddressTexts ==
    {<<"J", " ", "<", "j", "@", "d", ">">>,
     <<"d", ".", "c", ":", "5", "0", "6", "0">>,
     <<"X", " ", "<", "s", "i", "p", ":", "u", "@", "d", ":", "1", ">", ";", "a">>}

InitCodec ==
    /\ variant = "SubclassedSIP"
    /\ msg = NewMessage(None, None, None, None, None, FALSE)
    /\ ret = NoCall
    /\ increments = Some(0)
    /\ set_order \in SetOrders
    /\ codec = NoCodec
    /\ util = NoUtil

\* SIPURI.from_uri on a text of the grammar or one of the other texts
FromUri ==
    /\ codec = NoCodec
    /\ \/ \E p \in UriParts :
            codec' = CodecCall("from_uri", UriText(p), from_uri(UriText(p)),
                               Some(p), None)
       \/ \E t \in OtherUriTexts :
            codec' = CodecCall("from_uri", t, from_uri(t), None, None)
    /\ UNCHANGED <<variant, msg, ret, increments, set_order, util>>

\* str() of the SIPURI just parsed
UriStr ==
    /\ codec.op = "from_uri"
    /\ codec.out.ok
    /\ IsNone(codec.origin)
    /\ codec' = CodecCall("SIPURI_str", codec.out.val,
                          Ok(SIPURI_str(codec.out.val)), None, Some(codec))
    /\ UNCHANGED <<variant, msg, ret, increments, set_order, util>>

\* SIPURI.from_uri on the text just rendered
ReparseUri ==
    /\ codec.op = "SIPURI_str"
    /\ codec' = CodecCall("from_uri", codec.out.val, from_uri(codec.out.val),
                          None, Some(codec))
    /\ UNCHANGED <<variant, msg, ret, increments, set_order, util>>

\* str() of an Address
AddressStr ==
    /\ codec = NoCodec
    /\ \E a \in Addresses :
         codec' = CodecCall("Address_str", a, Ok(Address_str(a)), None, None)
    /\ UNCHANGED <<variant, msg, ret, increments, set_order, util>>

\* Address.from_address on the text just rendered, or on one of the other texts
FromAddress ==
    /\ \/ /\ codec.op = "Address_str"
          /\ codec' = CodecCall("from_address", codec.out.val,
                                from_address(codec.out.val), None, Some(codec))
       \/ \E t \in OtherAddressTexts :
            /\ codec = NoCodec
            /\ codec' = CodecCall("from_address", t, from_address(t), None, None)
    /\ UNCHANGED <<variant, msg, ret, increments, set_order, util>>

NextCodec ==
    \/ FromUri
    \/ UriStr
    \/ ReparseUri
    \/ AddressStr
    \/ FromAddress

SpecCodec == InitCodec /\ [][NextCodec]_vars

-----------------------------------------------------------------------------
(* Inbound packets through utils.sip_headers_to_dict and                    *)
(* utils.generate_200_ok_response                                           *)

\* the lines an inbound packet is written from: the value of each of the five
\* headers the response copies (None: no such line), one more line in the
\* header block, and the body after the blank line
PacketParts ==
    [via : {None, Some(T_SIP20 \o <<"/">> \o T_UDP \o <<" ", "h", ".", "c">>)},
     to : {None, Some(<<"<", "s", "i", "p", ":", "v", "@", "t", ".", "c", ">">>)},
     from : {None, Some(<<"<", "s", "i", "p", ":", "u", "@", "h", ".", "c", ">",
                          ";", "t", "a", "g", "=", "1">>)},
     call_id : {None, Some(<<"a", "8", "4", "b">>)},
     cseq : {None, Some(<<"3", "1", "4", "1", "5", "9", " ", "A", "C", "K">>),
             Some(<<"7", " ", "I", "N", "V", "I", "T", "E">>), Some(<<>>)},
     extra : {None, Some(H_MaxForwards \o T_colon_space \o <<"7", "0">>),
              Some(<<"G", "a", "r", "b", "a", "g", "e">>)},
     body : {<<>>, <<"v", "=", "0">>,
             H_Via \o T_colon_space \o T_SIP20 \o <<"/">> \o T_UDP
                \o <<" ", "e", "v", "i", "l">>}]

\* "Name: value\r\n" for a header that is there, nothing for one that is not
PacketLine(name, value) ==
    IF IsNone(value) THEN <<>> ELSE name \o T_colon_space \o Val(value) \o CRLF

\* the packet text: start line, header lines, blank line, body
PacketText(p) ==
    T_NOTIFY \o <<" ">> \o T_sip \o <<"v", "@", "t", ".", "c", " ">> \o T_SIP20
    \o CRLF
    \o PacketLine(H_Via, p.via)
    \o (IF IsNone(p.extra) THEN <<>> ELSE Val(p.extra) \o CRLF)
    \o PacketLine(H_To, p.to)
    \o PacketLine(H_From, p.from)
    \o PacketLine(H_CallID, p.call_id)
    \o PacketLine(H_CSeq, p.cseq)
    \o CRLF
    \o p.body

InitUtils ==
    /\ variant = "SubclassedSIP"
    /\ msg = NewMessage(None, None, None, None, None, FALSE)
    /\ ret = NoCall
    /\ increments = Some(0)
    /\ set_order \in SetOrders
    /\ codec = NoCodec
    /\ util = NoUtil

\* utils.sip_headers_to_dict on a packet; it has no raise of its own
SipHeadersToDict ==
    /\ util = NoUtil
    /\ \E p \in PacketParts :
         util' = UtilCall("sip_headers_to_dict", PacketText(p), Some(p),
                          sip_headers_to_dict(PacketText(p)), Returned(<<>>))
    /\ UNCHANGED <<variant, msg, ret, increments, set_order, codec>>

\* utils.generate_200_ok_response on a packet
Generate200Ok ==
    /\ util = NoUtil
    /\ \E p \in PacketParts :
         util' = UtilCall("generate_200_ok_response", PacketText(p), Some(p),
                          sip_headers_to_dict(PacketText(p)),
                          generate_200_ok_response(PacketText(p)))
    /\ UNCHANGED <<variant, msg, ret, increments, set_order, codec>>

NextUtils ==
    \/ SipHeadersToDict
    \/ Generate200Ok

SpecUtils == InitUtils /\ [][NextUtils]_vars

-----------------------------------------------------------------------------
(* Reading a rendered message back: the text up to the first blank line is  *)
(* the start line and the header lines, what follows it is the body         *)

BlankLine == CRLF \o CRLF
WireHead(text) == Take(text, Find(text, BlankLine) - 1)
WireLines(text) == Split(WireHead(text), CRLF)
WireBody(text) == Drop(text, Find(text, BlankLine) + Len(BlankLine) - 1)
InSeq(x, s) == \E i \in DOMAIN s : s[i] = x

Headers == get_headers(variant, msg)
Minimal ==
    /\ variant = "SubclassedSIP"
    /\ IsNone(msg.accept) /\ IsNone(msg.event) /\ IsNone(msg.body)
    /\ IsNone(msg.to_tag)

-----------------------------------------------------------------------------
(* Claims *)

\* C1: a minimal message (accept, event, body, to_tag absent) renders exactly
\* the headers Via, To, From, CSeq, Call-ID, Contact, Max-Forwards,
\* Content-Length, in that order, each once.
C1_MinimalHeaderOrder ==
    Minimal =>
        DictKeys(Headers) = <<H_Via, H_To, H_From, H_CSeq, H_CallID, H_Contact,
                              H_MaxForwards, H_ContentLength>>

\* C2: for every variant and assignment of the optional fields, after any
\* sequence of add_to_tag / set_cseq / increment_cseq, get_headers contains
\* Content-Length and Content-Length is the last header.
C2_ContentLengthLast ==
    /\ DictHas(Headers, H_ContentLength)
    /\ DictKeys(Headers)[Len(Headers)] = H_ContentLength

\* C3: a Subscribe given a body has get_body() absent, a Content-Length of
\* "0", and a format() text that ends with the blank line after the headers.
C3_SubscribeDiscardsBody ==
    (variant = "Subscribe" /\ ~IsNone(msg.body)) =>
        /\ IsNone(get_body(variant, msg))
        /\ DictGet(Headers, H_ContentLength) = <<"0">>
        /\ ret.op = "format" =>
              /\ Find(ret.text, BlankLine) = Len(ret.text) - Len(BlankLine) + 1
              /\ WireBody(ret.text) = <<>>

C3_Witness ==
    /\ variant = "Subscribe"
    /\ msg.body = Some(B_ascii)
    /\ ret.op = "format"

\* C4: the Content-Length value is the decimal count of the UTF-8 bytes of the
\* body format() appends, "0" when there is none; for a body with multi-byte
\* characters it is the byte count (10 for the body of 4 characters), not the
\* character count.
C4_ContentLengthIsByteCount ==
    /\ DictGet(Headers, H_ContentLength) =
          IF IsNone(get_body(variant, msg)) THEN <<"0">>
          ELSE IntToStr(Utf8Bytes(Val(get_body(variant, msg))))
    /\ ret.op = "format" =>
          /\ InSeq(H_ContentLength \o <<":", " ">>
                   \o IntToStr(Utf8Bytes(WireBody(ret.text))),
                   WireLines(ret.text))
          /\ IsNone(get_body(variant, msg)) => WireBody(ret.text) = <<>>
          /\ ~IsNone(get_body(variant, msg)) =>
                WireBody(ret.text) = Val(get_body(variant, msg))
    /\ (variant = "SubclassedSIP" /\ msg.body = Some(B_multibyte)) =>
          DictGet(Headers, H_ContentLength) = <<"1", "0">>
    /\ (variant = "SubclassedSIP" /\ msg.body = Some(B_ascii)) =>
          DictGet(Headers, H_ContentLength) = <<"8">>

C4_Witness ==
    /\ variant = "SubclassedSIP"
    /\ msg.body = Some(B_multibyte)
    /\ ret.op = "format"

\* C5: format() returns the start line "{METHOD} sip:{user}@{domain} SIP/2.0"
\* (the to URI without port and parameters), CRLF, the header lines
\* "Name: value" separated by CRLF, one blank line, and then the body verbatim
\* with no CRLF after it, or nothing when the body is absent.
C5_FormatLayout ==
    ret.op = "format" =>
        LET text == ret.text
            lines == WireLines(text)
            uri == msg.to_field.sip_uri
            body == get_body(variant, msg)
            hs == Headers
        IN  /\ Find(text, BlankLine) > 0
            /\ lines =
                  <<method(variant) \o <<" ">> \o T_sip
                      \o (IF IsNone(uri.user) THEN <<>>
                          ELSE Quote(Val(uri.user)) \o <<"@">>)
                      \o uri.domain \o <<" ">> \o T_SIP20>>
                  \o [i \in DOMAIN hs |-> hs[i][1] \o <<":", " ">> \o hs[i][2]]
            /\ WireBody(text) = IF IsNone(body) THEN <<>> ELSE Val(body)
            /\ Len(text) = Len(WireHead(text)) + Len(BlankLine) + Len(WireBody(text))

C5_Witness ==
    /\ ret.op = "format"
    /\ variant = "SubclassedSIP"
    /\ msg.body = Some(B_blank_line)
    /\ ~IsNone(msg.to_tag)

\* what C6 says of one step and of the state it leads to
C6_Step ==
    /\ (ret'.op = "increment_cseq" /\ IsPyInt(msg.cseq)
        /\ msg.cseq = IntToStr(PyIntValue(msg.cseq))) =>
          /\ ret'.ok /\ ret'.num = PyIntValue(msg.cseq) + 1
          /\ msg'.cseq = IntToStr(PyIntValue(msg.cseq) + 1)
    /\ (ret'.op = "increment_cseq" /\ msg.cseq = <<"1">>) =>
          /\ ret'.ok /\ ret'.num = 2
          /\ msg'.cseq = <<"2">>
    /\ ~IsNone(increments') =>
          /\ Val(cseq_header(variant', msg')) =
                IntToStr(1 + Val(increments')) \o <<" ">> \o method(variant')
          /\ ret'.op = "format" =>
                InSeq(H_CSeq \o <<":", " ">> \o IntToStr(1 + Val(increments'))
                      \o <<" ">> \o method(variant'),
                      WireLines(ret'.text))

\* C6: increment_cseq on the decimal string of n returns n + 1 and stores the
\* decimal string of n + 1; after k successive calls from "1" the CSeq header
\* rendered next is "{1+k} {METHOD}".
C6_IncrementCSeq == [][C6_Step]_vars

C6_Witness ==
    /\ increments = Some(2)
    /\ msg.cseq = <<"3">>
    /\ ret.op = "format"

\* C7: increment_cseq on a cseq that is not an integer string raises instead
\* of returning a value, and leaves cseq and every other field unchanged.
C7_IncrementRejectsNonInteger ==
    [][(ret'.op = "increment_cseq" /\ ~IsPyInt(msg.cseq)) =>
          /\ ~ret'.ok
          /\ msg' = msg
          /\ variant' = variant]_vars

C7_Witness ==
    /\ ret.op = "increment_cseq"
    /\ ~ret.ok
    /\ msg.cseq = <<"2", ".", "0">>

\* C8: for every Address a, Address.from_address(str(a)) succeeds and equals a
\* field for field, also when a has no display name.
C8_AddressRoundTrip ==
    (codec.op = "from_address" /\ ~IsNone(codec.origin)) =>
        /\ codec.out.ok
        /\ codec.out.val = Val(codec.origin).input

\* C9: for every valid URI text with a user, a domain, a port and parameters,
\* from_uri yields those components, and parsing str() of the result again
\* yields the same user, domain and port and a set-equal parameter set.
C9_UriRoundTrip ==
    /\ (codec.op = "from_uri" /\ ~IsNone(codec.parts)
        /\ ~IsNone(Val(codec.parts).user) /\ ~IsNone(Val(codec.parts).port)
        /\ Val(codec.parts).params # <<>>) =>
          /\ codec.out.ok
          /\ codec.out.val.user = Val(codec.parts).user
          /\ codec.out.val.domain = Val(codec.parts).domain
          /\ codec.out.val.port = Val(codec.parts).port
          /\ codec.out.val.parameters =
                {Val(codec.parts).params[i] : i \in DOMAIN Val(codec.parts).params}
    /\ (codec.op = "from_uri" /\ ~IsNone(codec.origin)
        /\ ~IsNone(Val(codec.origin).input.user)
        /\ ~IsNone(Val(codec.origin).input.port)
        /\ Val(codec.origin).input.parameters # {}) =>
          /\ codec.out.ok
          /\ codec.out.val.user = Val(codec.origin).input.user
          /\ codec.out.val.domain = Val(codec.origin).input.domain
          /\ codec.out.val.port = Val(codec.origin).input.port
          /\ codec.out.val.parameters = Val(codec.origin).input.parameters

\* C10: from_uri on a URI text with no ":port" part succeeds and yields a URI
\* whose port is absent, with user, domain and parameters taken from the text.
C10_NoPortParses ==
    (codec.op = "from_uri" /\ ~IsNone(codec.parts)
     /\ IsNone(Val(codec.parts).port)) =>
        /\ codec.out.ok
        /\ IsNone(codec.out.val.port)
        /\ codec.out.val.user = Val(codec.parts).user
        /\ codec.out.val.domain = Val(codec.parts).domain
        /\ codec.out.val.parameters =
              {Val(codec.parts).params[i] : i \in DOMAIN Val(codec.parts).params}

\* the header block of an inbound packet: the lines after the start line and
\* before the first blank line
HeaderBlock(packet) == Tail(WireLines(packet))

\* the lines of the header block carrying the header called name
BlockLines(packet, name) ==
    SelectSeq(HeaderBlock(packet), LAMBDA line : StartsWith(line, name \o T_colon_space))

BlockHas(packet, name) == BlockLines(packet, name) # <<>>
BlockValue(packet, name) == Drop(BlockLines(packet, name)[1], Len(name) + 2)

\* the sequence number of a CSeq value: the text before its first space
SequenceNumber(value) ==
    IF Find(value, <<" ">>) = 0 THEN value ELSE Take(value, Find(value, <<" ">>) - 1)

\* C11: for every inbound text whose header block holds Via, From, To,
\* Call-ID and CSeq, generate_200_ok_response returns "SIP/2.0 200 OK", the
\* lines Via, From, To, Call-ID with the inbound values, "CSeq: {number}
\* NOTIFY", "Content-Length: 0" and a blank line, with no body.  (Taken for
\* the packets whose CSeq line has a sequence number.)
C11_Response ==
    (/\ util.op = "generate_200_ok_response"
     /\ \A i \in DOMAIN RequiredHeaders : BlockHas(util.packet, RequiredHeaders[i])
     /\ BlockValue(util.packet, H_CSeq) # <<>>) =>
        /\ util.out.ok
        /\ util.out.text =
              <<"S", "I", "P", "/", "2", ".", "0", " ", "2", "0", "0", " ", "O", "K">>
              \o CRLF
              \o <<"V", "i", "a", ":", " ">> \o BlockValue(util.packet, H_Via) \o CRLF
              \o <<"F", "r", "o", "m", ":", " ">> \o BlockValue(util.packet, H_From)
              \o CRLF
              \o <<"T", "o", ":", " ">> \o BlockValue(util.packet, H_To) \o CRLF
              \o <<"C", "a", "l", "l", "-", "I", "D", ":", " ">>
              \o BlockValue(util.packet, H_CallID) \o CRLF
              \o <<"C", "S", "e", "q", ":", " ">>
              \o SequenceNumber(BlockValue(util.packet, H_CSeq))
              \o <<" ", "N", "O", "T", "I", "F", "Y">> \o CRLF
              \o <<"C", "o", "n", "t", "e", "n", "t", "-", "L", "e", "n", "g", "t", "h",
                   ":", " ", "0">> \o CRLF \o CRLF

\* C12: generate_200_ok_response on an inbound text whose header block lacks
\* one of Via, From, To, Call-ID, CSeq raises an error naming a header that
\* is missing and returns no response text.
C12_MissingHeaderFails ==
    (/\ util.op = "generate_200_ok_response"
     /\ \E i \in DOMAIN RequiredHeaders : ~BlockHas(util.packet, RequiredHeaders[i])) =>
        /\ ~util.out.ok
        /\ util.out.text = <<>>
        /\ \E i \in DOMAIN RequiredHeaders :
              /\ util.out.key = RequiredHeaders[i]
              /\ ~BlockHas(util.packet, RequiredHeaders[i])

\* a header line of the form "HeaderName: value", the name of letters, digits
\* and hyphens
WellFormedLine(line) ==
    \E i \in 2..Len(line) :
        /\ i < Len(line) /\ line[i] = ":" /\ line[i + 1] = " "
        /\ \A j \in 1..(i - 1) : line[j] \in LowerSet \cup UpperSet \cup DigitSet \cup {"-"}

\* C13: sip_headers_to_dict on an inbound text whose header block has a line
\* that is not "HeaderName: value" fails; it does not pass the line over and
\* return a mapping of the other headers.
C13_MalformedLineFails ==
    (/\ util.op = "sip_headers_to_dict"
     /\ \E i \in DOMAIN HeaderBlock(util.packet) :
           ~WellFormedLine(HeaderBlock(util.packet)[i])) =>
        ~util.out.ok

\* what C14 says of one step of add_to_tag, set_cseq or increment_cseq
C14_Step ==
    /\ ret'.op = "add_to_tag" =>
          /\ ret'.text # <<>>
          /\ msg' = [msg EXCEPT !.to_tag = Some(ret'.text)]
    /\ ret'.op \in {"set_cseq", "increment_cseq"} =>
          msg' = [msg EXCEPT !.cseq = msg'.cseq]
    /\ ~IsNone(msg.to_tag) => ~IsNone(msg'.to_tag)
    /\ (~IsNone(msg'.to_tag) /\ ret'.op = "format") =>
          BlockLines(ret'.text, H_To) =
              <<H_To \o <<":", " ">> \o Address_str(msg'.to_field)
                \o <<";">> \o Val(msg'.to_tag)>>

\* C14: add_to_tag changes only to_tag, which becomes the token it returns;
\* set_cseq and increment_cseq change only cseq; once add_to_tag has been
\* called to_tag stays present and the To header is the rendered to_field,
\* ";" and the current to_tag.
C14_FrameEffects == [][C14_Step]_vars

C14_Witness ==
    /\ ~IsNone(msg.to_tag)
    /\ ret.op = "increment_cseq"
    /\ ret.ok
    /\ msg.cseq = <<"3">>

\* C15: the rendered headers contain Content-Type exactly when format() appends
\* a body, that is when get_body() is present.
C15_ContentTypeIffBody ==
    DictHas(Headers, H_ContentType) <=> ~IsNone(get_body(variant, msg))

=============================================================================
